---- MODULE Spec2Model ----
(***************************************************************************)
(* Model of kinematics/1d/solve.py: problem_solver and resolver.           *)
(*                                                                         *)
(* Numbers are exact rationals n/d (the program computes in floating       *)
(* point; rounding is not modelled).  A dict entry is either a number or   *)
(* a sympy Symbol.                                                         *)
(*                                                                         *)
(* sympy.solve(equation, dict=True) is a library call (solve.py line 49).  *)
(* It is modelled by what it returns for the five polynomial equations:    *)
(*   - no free symbol left (the Eq is True or False): []                   *)
(*   - one free symbol: one dict per root, real roots in ascending order   *)
(*   - several free symbols: the symbols are taken in sorted order; the    *)
(*     first symbol in which the equation is linear is solved in terms of  *)
(*     the others and comes first in the list; symbols solved later are    *)
(*     kept when their value does not use a symbol already solved for.     *)
(***************************************************************************)
EXTENDS Integers, Sequences, FiniteSets, TLC

VARIABLES scenario, given, initial, final, find, caller, i, pc, eqn, tried, answer, ret

vars == <<scenario, given, initial, final, find, caller, i, pc, eqn, tried, answer, ret>>

\* Longest find list handed to resolver.
MaxFind == 2

-----------------------------------------------------------------------------
(* Values held by the dicts and by solutions *)

Abs(x) == IF x < 0 THEN -x ELSE x

RECURSIVE GCD(_, _)
GCD(a, b) == IF b = 0 THEN a ELSE GCD(b, a % b)

\* a number n/d in lowest terms with positive denominator
Num(n, d) ==
    LET g == GCD(Abs(n), Abs(d))
        sg == IF d < 0 THEN -1 ELSE 1
    IN [kind |-> "num", name |-> "", n |-> sg * (n \div g), d |-> sg * (d \div g)]

Int2Num(n) == Num(n, 1)

\* symbols(f'{name}{group_number}')
Sym(x) == [kind |-> "sym", name |-> x, n |-> 0, d |-> 1]

\* a solution that still contains symbols
Expr == [kind |-> "expr", name |-> "", n |-> 0, d |-> 1]

\* a real root that is not rational, and a root that is not real
Irrational == [kind |-> "irr", name |-> "", n |-> 0, d |-> 1]
Complex == [kind |-> "cplx", name |-> "", n |-> 0, d |-> 1]

\* result.is_number
is_number(x) == x.kind \in {"num", "irr", "cplx"}

RAdd(x, y) == Num(x.n * y.d + y.n * x.d, x.d * y.d)
RNeg(x) == Num(-x.n, x.d)
RSub(x, y) == RAdd(x, RNeg(y))
RMul(x, y) == Num(x.n * y.n, x.d * y.d)
RDiv(x, y) == Num(x.n * y.d, x.d * y.n)
RLess(x, y) == x.n * y.d < y.n * x.d
IsZero(x) == x.n = 0
Half == Num(1, 2)
Two == Int2Num(2)

\* integer square root
ISqrt(m) == CHOOSE r \in 0..m : r * r <= m /\ (r + 1) * (r + 1) > m
IsSquare(m) == m >= 0 /\ ISqrt(m) * ISqrt(m) = m

-----------------------------------------------------------------------------
(* Names *)

variable_prefixes == <<"s", "t", "v", "a">>
Names == {variable_prefixes[j] : j \in 1..Len(variable_prefixes)}
Groups == {0, 1}

\* f'{name}{group_number}'
SymName(name, g) == name \o (IF g = 0 THEN "0" ELSE "1")

\* the symbols of the five equations, in sympy's sorted order
EqSymbols == <<"a0", "s0", "s1", "t0", "t1", "v0", "v1">>
EqSymbolSet == {EqSymbols[j] : j \in 1..Len(EqSymbols)}
RankOf == [x \in EqSymbolSet |-> CHOOSE j \in 1..Len(EqSymbols) : EqSymbols[j] = x]
Rank(x) == RankOf[x]

\* all the symbol names the completion can create
AllSymbols == {SymName(nm, g) : nm \in Names, g \in Groups}

\* key.name[0] and int(key.name[-1])
PrefixOf == [x \in AllSymbols |-> CHOOSE nm \in Names : \E g \in Groups : SymName(nm, g) = x]
GroupOf == [x \in AllSymbols |-> CHOOSE g \in Groups : \E nm \in Names : SymName(nm, g) = x]
Prefix(x) == PrefixOf[x]
Group(x) == GroupOf[x]

\* initial['v'], final['t'], ... as the equations read them
Lookup(ini, fin, x) == IF Group(x) = 0 THEN ini[Prefix(x)] ELSE fin[Prefix(x)]

-----------------------------------------------------------------------------
(* The five equations, each as lhs - rhs under an assignment e of numbers  *)
(* to the seven symbols                                                    *)

\* Eq(final['v'], initial['v'] + initial['a']*(final['t'] - initial['t']))
Eq1(e) == RSub(e["v1"], RAdd(e["v0"], RMul(e["a0"], RSub(e["t1"], e["t0"]))))

\* equation 2 with the factor 0.5 left out
Eq2_NoHalf(e) ==
    LET d == RSub(e["t1"], e["t0"])
    IN RSub(RSub(e["s1"], e["s0"]),
            RAdd(RMul(e["a0"], RMul(d, d)), RMul(e["v0"], d)))

\* Eq(final['s'] - initial['s'], 0.5*a*(t1 - t0)**2 + v0*(t1 - t0))
Eq2(e) ==
    LET d == RSub(e["t1"], e["t0"])
    IN RSub(RSub(e["s1"], e["s0"]),
            RAdd(RMul(RMul(Half, e["a0"]), RMul(d, d)), RMul(e["v0"], d)))

\* Eq(final['v']**2, initial['v']**2 + 2*a*(s1 - s0))
Eq3(e) ==
    RSub(RMul(e["v1"], e["v1"]),
         RAdd(RMul(e["v0"], e["v0"]),
              RMul(RMul(Two, e["a0"]), RSub(e["s1"], e["s0"]))))

\* Eq(final['s'] - initial['s'], -0.5*a*(t1 - t0)**2 + v1*(t1 - t0))
Eq4(e) ==
    LET d == RSub(e["t1"], e["t0"])
    IN RSub(RSub(e["s1"], e["s0"]),
            RAdd(RNeg(RMul(RMul(Half, e["a0"]), RMul(d, d))), RMul(e["v1"], d)))

\* Eq(final['s'] - initial['s'], 0.5*(s1 + s0)*(t1 - t0))
Eq5(e) ==
    RSub(RSub(e["s1"], e["s0"]),
         RMul(RMul(Half, RAdd(e["s1"], e["s0"])), RSub(e["t1"], e["t0"])))

Residual(k, e) ==
    CASE k = 1 -> Eq1(e)
      [] k = 2 -> Eq2(e)
      [] k = 3 -> Eq3(e)
      [] k = 4 -> Eq4(e)
      [] k = 5 -> Eq5(e)

\* the list with its first two equations exchanged
big_5_swapped == <<2, 1, 3, 4, 5>>

\* the order of the list big_5
big_5 == <<1, 2, 3, 4, 5>>

-----------------------------------------------------------------------------
(* solve(equation, dict=True)                                              *)

Known(ini, fin, x) == Lookup(ini, fin, x).kind = "num"

\* the velocity that equation k multiplies by (t1 - t0)
VelOf(k) == IF k = 2 THEN "v0" ELSE "v1"

\* The symbols left in equation k once the known numbers are put in and
\* the products with a known zero factor have vanished.
FreeSymbols(k, ini, fin) ==
    LET K(x) == Known(ini, fin, x)
        V(x) == Lookup(ini, fin, x)
        Un(S) == {x \in S : ~K(x)}
        Td == ~(K("t0") /\ K("t1"))
        Dd == ~(K("s0") /\ K("s1"))
        d == RSub(V("t1"), V("t0"))
        D == RSub(V("s1"), V("s0"))
        dnz == Td \/ ~IsZero(d)
        Dnz == Dd \/ ~IsZero(D)
        nz(x) == ~K(x) \/ ~IsZero(V(x))
        vk == VelOf(k)
    IN CASE k = 1 ->
              Un({"v0", "v1"})
              \cup (IF dnz THEN Un({"a0"}) ELSE {})
              \cup (IF nz("a0") THEN Un({"t0", "t1"}) ELSE {})
         [] k \in {2, 4} ->
              Un({"s0", "s1"})
              \cup (IF dnz THEN Un({"a0", vk}) ELSE {})
              \cup (IF nz("a0") \/ nz(vk) THEN Un({"t0", "t1"}) ELSE {})
         [] k = 3 ->
              Un({"v0", "v1"})
              \cup (IF Dnz THEN Un({"a0"}) ELSE {})
              \cup (IF nz("a0") THEN Un({"s0", "s1"}) ELSE {})
         [] k = 5 ->
              (IF Td \/ d # Int2Num(-2) THEN Un({"s0"}) ELSE {})
              \cup (IF Td \/ d # Two THEN Un({"s1"}) ELSE {})
              \cup (IF Dd \/ ~IsZero(RAdd(V("s1"), V("s0")))
                    THEN Un({"t0", "t1"}) ELSE {})

\* Is equation k of degree one in its free symbol x?
Linear(k, ini, fin, x) ==
    CASE k \in {2, 4} /\ x \in {"t0", "t1"} ->
              Known(ini, fin, "a0") /\ IsZero(Lookup(ini, fin, "a0"))
      [] k = 3 /\ x \in {"v0", "v1"} -> FALSE
      [] OTHER -> TRUE

\* the first symbol of U in sorted order
First(U) == CHOOSE x \in U : \A y \in U : Rank(x) <= Rank(y)

Binding(x, v) == [name |-> x, val |-> v]

\* the two real roots r1, r2 in ascending order, a double root once
Ordered(x, r1, r2) ==
    IF r1 = r2 THEN <<Binding(x, r1)>>
    ELSE IF RLess(r2, r1) THEN <<Binding(x, r2), Binding(x, r1)>>
    ELSE <<Binding(x, r1), Binding(x, r2)>>

\* the roots of a quadratic with discriminant disc
QuadRoots(x, c2, c1, disc) ==
    IF disc.n < 0 THEN <<Binding(x, Complex), Binding(x, Complex)>>
    ELSE IF ~(IsSquare(disc.n) /\ IsSquare(disc.d))
         THEN <<Binding(x, Irrational), Binding(x, Irrational)>>
    ELSE Ordered(x,
                 RDiv(RSub(RNeg(c1), Num(ISqrt(disc.n), ISqrt(disc.d))), RMul(Two, c2)),
                 RDiv(RAdd(RNeg(c1), Num(ISqrt(disc.n), ISqrt(disc.d))), RMul(Two, c2)))

\* the roots of c2*x^2 + c1*x + c0
Roots(x, c2, c1, c0) ==
    IF IsZero(c2) THEN <<Binding(x, RNeg(RDiv(c0, c1)))>>
    ELSE QuadRoots(x, c2, c1, RSub(RMul(c1, c1), RMul(Int2Num(4), RMul(c2, c0))))

\* the coefficients from the values p0, p1, m1 of the polynomial at 0, 1, -1
RootsFrom(x, p0, p1, m1) ==
    Roots(x, RSub(RMul(Half, RAdd(p1, m1)), p0), RMul(Half, RSub(p1, m1)), p0)

\* equation k with v for x, the known numbers for the other symbols, and 0
\* for a symbol that has dropped out
ResidualAt(k, ini, fin, x, v) ==
    Residual(k, [y \in EqSymbolSet |->
                    IF y = x THEN Int2Num(v)
                    ELSE IF Known(ini, fin, y) THEN Lookup(ini, fin, y)
                    ELSE Int2Num(0)])

\* One free symbol x: equation k is a polynomial of degree one or two in x.
SolveOne(k, ini, fin, x) ==
    RootsFrom(x, ResidualAt(k, ini, fin, x, 0),
                 ResidualAt(k, ini, fin, x, 1),
                 ResidualAt(k, ini, fin, x, -1))

\* The second dict of the list when a factor (t1 - t0) of the equation is
\* what remains after the first symbol is solved: the first unknown time
\* is bound to the other time shifted by sh.
TimeTail(ini, fin, sh) ==
    IF ~Known(ini, fin, "t0")
    THEN Binding("t0", IF Known(ini, fin, "t1")
                       THEN RAdd(Lookup(ini, fin, "t1"), Int2Num(sh)) ELSE Expr)
    ELSE Binding("t1", RSub(Lookup(ini, fin, "t0"), Int2Num(sh)))

\* The same for a remaining factor (s1 - s0).
PosTail(ini, fin) ==
    IF ~Known(ini, fin, "s0")
    THEN Binding("s0", IF Known(ini, fin, "s1")
                       THEN Lookup(ini, fin, "s1") ELSE Expr)
    ELSE Binding("s1", Lookup(ini, fin, "s0"))

\* Several free symbols U: the first symbol x in which the equation is
\* linear is solved as x = -c0/c1.  The value is a number only when the
\* equation factors as c1*(x - number); then the symbols of c1 are solved
\* next and follow in the list.
SolveMany(k, ini, fin, U) ==
    LET K(y) == Known(ini, fin, y)
        V(y) == Lookup(ini, fin, y)
        Zero == Int2Num(0)
        Kz(y) == K(y) /\ IsZero(V(y))
        Td == ~(K("t0") /\ K("t1"))
        Dd == ~(K("s0") /\ K("s1"))
        D0 == ~Dd /\ V("s1") = V("s0")
        vk == VelOf(k)
        lin == {y \in U : Linear(k, ini, fin, y)}
        x == First(lin)
    IN IF lin = {} THEN <<Binding(First(U), Expr)>>
       ELSE CASE x = "a0" /\ k = 1 /\ Td /\ K("v0") /\ K("v1") /\ V("v0") = V("v1") ->
                   <<Binding(x, Zero), TimeTail(ini, fin, 0)>>
              [] x = "a0" /\ k \in {2, 4} /\ Td /\ D0 /\ Kz(vk) ->
                   <<Binding(x, Zero), TimeTail(ini, fin, 0)>>
              [] x = "a0" /\ k = 3 /\ Dd /\ K("v0") /\ K("v1")
                   /\ RMul(V("v0"), V("v0")) = RMul(V("v1"), V("v1")) ->
                   <<Binding(x, Zero), PosTail(ini, fin)>>
              [] x = "t0" /\ k \in {2, 4} /\ ~K(vk) /\ D0 /\ K("t1") ->
                   <<Binding(x, V("t1")), Binding(vk, Zero)>>
              [] x = "t1" /\ k \in {2, 4} /\ ~K(vk) /\ D0 ->
                   <<Binding(x, V("t0")), Binding(vk, Zero)>>
              [] x = "s0" /\ k = 5 /\ Td /\ Kz("s1") ->
                   <<Binding(x, Zero), TimeTail(ini, fin, 2)>>
              [] x = "s1" /\ k = 5 /\ Kz("s0") ->
                   <<Binding(x, Zero), TimeTail(ini, fin, -2)>>
              [] OTHER -> <<Binding(x, Expr)>>

\* solve(equation, dict=True): the list of solution dicts, each with one key
Solve(k, ini, fin) ==
    LET U == FreeSymbols(k, ini, fin)
    IN IF U = {} THEN <<>>
       ELSE IF Cardinality(U) = 1 THEN SolveOne(k, ini, fin, First(U))
       ELSE SolveMany(k, ini, fin, U)

\* result.is_number and name.name == find, on the items of solution[0]
Matches(solution, target) ==
    /\ solution # <<>>
    /\ is_number(solution[1].val)
    /\ solution[1].name = target

-----------------------------------------------------------------------------
(* The caller's inputs *)

\* A constant-acceleration motion: s0, t0, v0, a0 and t1 are chosen, and
\* s1 and v1 follow from them.
Scenarios ==
    { [s0 |-> 0, t0 |-> 0, v0 |-> 0, a0 |-> 2, t1 |-> 3],
      [s0 |-> 1, t0 |-> 0, v0 |-> 2, a0 |-> 0, t1 |-> 2],
      [s0 |-> 1, t0 |-> 1, v0 |-> 1, a0 |-> 2, t1 |-> 1],
      [s0 |-> 2, t0 |-> 1, v0 |-> -1, a0 |-> 2, t1 |-> 2],
      [s0 |-> 0, t0 |-> 0, v0 |-> 0, a0 |-> 1, t1 |-> 1],
      [s0 |-> 1, t0 |-> 0, v0 |-> 0, a0 |-> 0, t1 |-> 1] }

\* the value of symbol x in the motion sc
TruthVal(sc, x) ==
    LET dt == sc.t1 - sc.t0
    IN CASE x = "s1" -> Num(2 * sc.s0 + 2 * sc.v0 * dt + sc.a0 * dt * dt, 2)
         [] x = "v1" -> Int2Num(sc.v0 + sc.a0 * dt)
         [] x = "s0" -> Int2Num(sc.s0)
         [] x = "t0" -> Int2Num(sc.t0)
         [] x = "t1" -> Int2Num(sc.t1)
         [] x = "v0" -> Int2Num(sc.v0)
         [] x = "a0" -> Int2Num(sc.a0)

\* the dict of group g holding the values of the symbols in gv
GivenDict(sc, gv, g) ==
    [nm \in {m \in Names : SymName(m, g) \in gv} |-> TruthVal(sc, SymName(nm, g))]

\* the find lists: sequences of symbols of the equations
FindLists == UNION {[1..n -> EqSymbolSet] : n \in 0..MaxFind}

\* no value bound: the Python None
NoneVal == [none |-> TRUE, sol |-> <<>>]

Init ==
    /\ scenario \in Scenarios
    /\ given \in SUBSET EqSymbolSet
    /\ initial = GivenDict(scenario, given, 0)
    /\ final = GivenDict(scenario, given, 1)
    /\ caller \in {"problem_solver", "resolver"}
    /\ find \in FindLists
    /\ caller = "problem_solver" => Len(find) = 1
    /\ i = 1
    /\ pc = IF caller = "resolver" THEN "loop" ELSE "complete"
    /\ eqn = 1
    /\ tried = <<>>
    /\ answer = NoneVal
    /\ ret = <<>>

-----------------------------------------------------------------------------
(* problem_solver *)

\* every placeholder tagged with group 0
Completed_Group0(group, g) ==
    [nm \in Names |-> IF nm \in DOMAIN group THEN group[nm] ELSE Sym(SymName(nm, 0))]

\* lines 33-36 for one dict: a missing name gets the symbol name+group
Completed(group, g) ==
    [nm \in Names |-> IF nm \in DOMAIN group THEN group[nm] ELSE Sym(SymName(nm, g))]

Complete ==
    /\ pc = "complete"
    /\ initial' = Completed(initial, 0)
    /\ final' = Completed(final, 1)
    /\ eqn' = 1
    /\ tried' = <<>>
    /\ pc' = "solve"
    /\ UNCHANGED <<scenario, given, find, caller, i, answer, ret>>

\* one pass of the loop over big_5, lines 48-54
TryEquation ==
    /\ pc = "solve"
    /\ eqn <= Len(big_5)
    /\ LET solution == Solve(big_5[eqn], initial, final)
       IN /\ tried' = Append(tried, big_5[eqn])
          /\ IF Matches(solution, find[i])
             THEN /\ answer' = [none |-> FALSE, sol |-> solution]
                  /\ pc' = "returned"
                  /\ eqn' = eqn
             ELSE /\ eqn' = eqn + 1
                  /\ UNCHANGED <<answer, pc>>
    /\ UNCHANGED <<scenario, given, initial, final, find, caller, i, ret>>

\* the loop ends without a return: the function returns None
FallThrough ==
    /\ pc = "solve"
    /\ eqn > Len(big_5)
    /\ answer' = NoneVal
    /\ pc' = "returned"
    /\ UNCHANGED <<scenario, given, initial, final, find, caller, i, eqn, tried, ret>>

\* problem_solver was called directly: its caller has the answer
SolverDone ==
    /\ pc = "returned"
    /\ caller = "problem_solver"
    /\ pc' = "done"
    /\ UNCHANGED <<scenario, given, initial, final, find, caller, i, eqn, tried, answer, ret>>

-----------------------------------------------------------------------------
(* resolver *)

\* line 86-87: the next variable of find is handed to problem_solver
CallSolver ==
    /\ pc = "loop"
    /\ i <= Len(find)
    /\ pc' = "complete"
    /\ UNCHANGED <<scenario, given, initial, final, find, caller, i, eqn, tried, answer, ret>>

\* the value written to final whatever the suffix
Store_AlwaysFinal(ini, fin, key, value) ==
    <<ini, [fin EXCEPT ![Prefix(key)] = value]>>

\* the value written to the other group
Store_Swapped(ini, fin, key, value) ==
    IF Group(key) = 1
    THEN <<[ini EXCEPT ![Prefix(key)] = value], fin>>
    ELSE <<ini, [fin EXCEPT ![Prefix(key)] = value]>>

\* group_collection[int(key.name[-1])][key.name[0]] = value
Store(ini, fin, key, value) ==
    IF Group(key) = 0
    THEN <<[ini EXCEPT ![Prefix(key)] = value], fin>>
    ELSE <<ini, [fin EXCEPT ![Prefix(key)] = value]>>

\* a target without answer is skipped
RaiseTypeError_Skip ==
    /\ pc = "returned"
    /\ caller = "resolver"
    /\ answer.none
    /\ pc' = "loop"
    /\ i' = i + 1
    /\ UNCHANGED <<scenario, given, initial, final, find, caller, eqn, tried, answer, ret>>

\* line 88 on None: answer[0] raises TypeError
RaiseTypeError ==
    /\ pc = "returned"
    /\ caller = "resolver"
    /\ answer.none
    /\ pc' = "raised"
    /\ UNCHANGED <<scenario, given, initial, final, find, caller, i, eqn, tried, answer, ret>>

\* lines 88-89
WriteBack ==
    /\ pc = "returned"
    /\ caller = "resolver"
    /\ ~answer.none
    /\ LET key == answer.sol[1].name
           st == Store(initial, final, key, answer.sol[1].val)
       IN /\ initial' = st[1]
          /\ final' = st[2]
          \* a root outside the rationals is stored, and the run is not
          \* followed further
          /\ pc' = IF answer.sol[1].val.kind = "num" THEN "loop" ELSE "beyond"
    /\ i' = i + 1
    /\ UNCHANGED <<scenario, given, find, caller, eqn, tried, answer, ret>>

\* line 91
ResolverReturn ==
    /\ pc = "loop"
    /\ i > Len(find)
    /\ ret' = <<initial, final>>
    /\ pc' = "done"
    /\ UNCHANGED <<scenario, given, initial, final, find, caller, i, eqn, tried, answer>>

Next ==
    \/ Complete
    \/ TryEquation
    \/ FallThrough
    \/ SolverDone
    \/ CallSolver
    \/ RaiseTypeError
    \/ WriteBack
    \/ ResolverReturn

Spec == Init /\ [][Next]_vars

TypeOK ==
    /\ pc \in {"loop", "complete", "solve", "returned", "done", "raised", "beyond"}
    /\ i \in 1..(MaxFind + 1)
    /\ eqn \in 1..(Len(big_5) + 1)

-----------------------------------------------------------------------------
(* Properties *)

\* the symbols still unbound once the dicts are completed
UnknownSyms == {x \in EqSymbolSet : ~Known(initial, final, x)}

\* does equation k give the current target a number?
HitAt(k) == Matches(Solve(k, initial, final), find[i])

UpTo(k) == [j \in 1..k |-> j]

Dict(g) == IF g = 0 THEN initial ELSE final

\* Do the other six values of the motion fix the value of x?
Determined(sc, x) ==
    CASE x = "a0" -> sc.t1 # sc.t0
      [] x \in {"t0", "t1"} -> sc.a0 # 0 \/ sc.v0 # 0
      [] OTHER -> TRUE

\* C1: with exactly one of the seven symbols missing, the other six taken
\* from a constant-acceleration motion and fixing the missing one,
\* problem_solver asked for the missing symbol returns a binding of it to
\* its value in the motion (so with a0 = 0 and v0 = v1 the s1 returned is
\* s0 + v0*(t1 - t0)), and it returns a result.
C1_ClosedForm ==
    (/\ pc = "returned"
     /\ i = 1
     /\ Cardinality(given) = 6
     /\ find[1] \notin given
     /\ Determined(scenario, find[1]))
    => /\ ~answer.none
       /\ answer.sol[1] = Binding(find[1], TruthVal(scenario, find[1]))

C1_Witness ==
    /\ pc = "returned"
    /\ i = 1
    /\ given = EqSymbolSet \ {"s1"}
    /\ find[1] = "s1"
    /\ scenario.a0 = 0
    /\ scenario.v0 # 0
    /\ ~answer.none
    /\ answer.sol[1].val = Int2Num(scenario.s0 + scenario.v0 * (scenario.t1 - scenario.t0))

\* C2: the equations are consulted in the order 1, 2, 3, 4, 5; the call
\* returns at the first equation that binds the target to a number, no
\* equation after it is consulted, and the value returned is the one of
\* that equation; with only s1 unknown it is equation 2.
C2_FirstEquationWins ==
    /\ pc = "solve" => tried = UpTo(eqn - 1)
    /\ (pc = "returned" /\ answer.none) => tried = UpTo(Len(big_5))
    /\ (pc = "returned" /\ ~answer.none) =>
          LET k == Len(tried)
          IN /\ tried = UpTo(k)
             /\ HitAt(k)
             /\ \A j \in 1..(k - 1) : ~HitAt(j)
             /\ answer.sol = Solve(k, initial, final)
             /\ (UnknownSyms = {"s1"} /\ find[i] = "s1") => k = 2

\* equation 2 answered while equation 5 would have given another number
C2_Witness ==
    /\ pc = "returned"
    /\ ~answer.none
    /\ tried = UpTo(2)
    /\ HitAt(5)
    /\ Solve(5, initial, final)[1].val # answer.sol[1].val

\* C3: when no equation gives the target a number problem_solver returns
\* None (and does not raise), and what it returns otherwise binds no
\* variable other than the target.
C3_NoneOrTargetOnly ==
    pc = "returned" =>
       /\ answer.none <=> (\A k \in 1..Len(big_5) : ~HitAt(k))
       /\ \A j \in 1..Len(answer.sol) : answer.sol[j].name = find[i]

\* C4: resolver takes the targets in the order of the list, hands
\* problem_solver the dicts with the values written so far, and writes the
\* value returned under the target's name into initial (suffix 0) or final
\* (suffix 1); when it returns every target of the list holds a number in
\* its own dict.  From initial {s:0,t:0,v:0,a:2}, final {v:6} and find
\* ['t1','s1'] the final dict gets t = 3 and s = 9.
C4_ResolverChaining ==
    /\ [][(pc = "returned" /\ caller = "resolver" /\ ~answer.none) =>
            LET key == find[i]
                v == answer.sol[1].val
            IN /\ answer.sol[1].name = key
               /\ i' = i + 1
               /\ IF Group(key) = 0
                  THEN /\ initial' = [initial EXCEPT ![Prefix(key)] = v]
                       /\ final' = final
                  ELSE /\ final' = [final EXCEPT ![Prefix(key)] = v]
                       /\ initial' = initial]_vars
    /\ [](pc \in {"complete", "solve", "returned"} =>
            \A j \in 1..(i - 1) : is_number(Lookup(initial, final, find[j])))
    /\ []((pc = "done" /\ caller = "resolver") =>
            /\ i = Len(find) + 1
            /\ \A j \in 1..Len(find) : is_number(Lookup(initial, final, find[j])))
    /\ []((/\ pc = "done"
           /\ scenario = [s0 |-> 0, t0 |-> 0, v0 |-> 0, a0 |-> 2, t1 |-> 3]
           /\ given = {"s0", "t0", "v0", "a0", "v1"}
           /\ find = <<"t1", "s1">>) =>
            final["t"] = Int2Num(3) /\ final["s"] = Int2Num(9))

C4_Witness ==
    /\ pc = "done"
    /\ caller = "resolver"
    /\ given = {"s0", "t0", "v0", "a0", "v1"}
    /\ find = <<"t1", "s1">>
    /\ final["t"] = Int2Num(3)
    /\ final["s"] = Int2Num(9)

\* C5: when a target of the list gets no number at its turn resolver
\* raises there: nothing is returned, the target is not skipped and no
\* later target is processed.
C5_FailsAtTarget ==
    /\ []((pc = "returned" /\ caller = "resolver") =>
            (answer.none <=> \A k \in 1..Len(big_5) : ~HitAt(k)))
    /\ [][(pc = "returned" /\ caller = "resolver" /\ answer.none) =>
            (pc' = "raised" /\ i' = i /\ UNCHANGED <<initial, final, ret>>)]_vars
    /\ [](pc = "raised" =>
            /\ caller = "resolver"
            /\ answer.none
            /\ i <= Len(find)
            /\ ret = <<>>)
    /\ [][pc # "raised"]_vars

\* the first target failed and a second one is left in the list
C5_Witness ==
    /\ pc = "raised"
    /\ i = 1
    /\ Len(find) = 2

\* C6: with all seven values given, problem_solver asked for any of them
\* returns the value given.
C6_RoundTrip ==
    (pc = "returned" /\ i = 1 /\ given = EqSymbolSet) =>
       /\ ~answer.none
       /\ answer.sol[1] = Binding(find[1], Lookup(initial, final, find[1]))

C8_NoFinalA == "a" \notin DOMAIN final

\* C9: when resolver returns with all seven values numeric, they satisfy
\* equations 1 and 2, whatever the order of the find list.
C9_Consistent ==
    (/\ pc = "done"
     /\ caller = "resolver"
     /\ DOMAIN initial = Names
     /\ DOMAIN final = Names
     /\ UnknownSyms = {}) =>
       LET e == [x \in EqSymbolSet |-> Lookup(initial, final, x)]
       IN IsZero(Eq1(e)) /\ IsZero(Eq2(e))

\* C10: every value given by the caller stays in its dict unchanged; a step
\* adds to a dict only placeholders for absent keys and replaces only the
\* placeholder of the current target, by the number found for it; resolver
\* returns the pair initial, final.
C10_Frame ==
    /\ [](\A x \in given :
            /\ Prefix(x) \in DOMAIN Dict(Group(x))
            /\ Lookup(initial, final, x) = TruthVal(scenario, x))
    /\ [][/\ DOMAIN initial \subseteq DOMAIN initial'
          /\ DOMAIN final \subseteq DOMAIN final'
          /\ \A nm \in DOMAIN initial' \ DOMAIN initial :
                initial'[nm] = Sym(SymName(nm, 0))
          /\ \A nm \in DOMAIN final' \ DOMAIN final :
                final'[nm] = Sym(SymName(nm, 1))
          /\ \A nm \in DOMAIN initial : initial'[nm] # initial[nm] =>
                /\ initial[nm] = Sym(SymName(nm, 0))
                /\ pc = "returned" /\ find[i] = SymName(nm, 0)
                /\ initial'[nm] = answer.sol[1].val
                /\ is_number(initial'[nm])
          /\ \A nm \in DOMAIN final : final'[nm] # final[nm] =>
                /\ final[nm] = Sym(SymName(nm, 1))
                /\ pc = "returned" /\ find[i] = SymName(nm, 1)
                /\ final'[nm] = answer.sol[1].val
                /\ is_number(final'[nm])]_vars
    /\ []((pc = "done" /\ caller = "resolver") => ret = <<initial, final>>)

\* resolver returned after two values were found next to five given ones
C10_Witness ==
    /\ pc = "done"
    /\ caller = "resolver"
    /\ Len(find) = 2
    /\ Cardinality(given) = 5
    /\ ret = <<initial, final>>

====
